---- MODULE Spec2Model ----
(***************************************************************************)
(* A model of the scripts of FPL-Discord.                                  *)
(*                                                                         *)
(*   Spec       runs of BGAGameTracker.scrape_and_analyze (bga_stats.py)   *)
(*              against a remote that finishes tables while the clock      *)
(*              advances: login and load, paged pair queries, aggregation  *)
(*              with analysis and report, save with logout.                *)
(*   SpecAgg    _find_common_games as a function of the order and of the   *)
(*              split of a set of match records.                           *)
(*   SpecElo    _categorize_by_elo as a function of its input.             *)
(*   SpecSplit  the field splitting of fpl_price.send_discord_message.     *)
(*   SpecEmbed  the field values built by _generate_report,                *)
(*              _send_discord_embed and _send_discord_game_list.           *)
(*   SpecFormat fpl_price.format_message as a function of the players.     *)
(*   SpecNews   a run of fpl_news.main over the result of a search.        *)
(*   SpecPlace  the placement lists _get_common_game makes of a table.     *)
(*   SpecPairs  the pair loop of _get_all_games_between_friends for any    *)
(*              number of users.                                           *)
(*   SpecBest   the best player of a game in _analyze_game and its entry   *)
(*              in the game list.                                          *)
(*                                                                         *)
(* Time.  The clock `now` counts half seconds since DefaultStart, the      *)
(* unit of the script's time.sleep(0.5).  int(time.time()) and the         *)
(* "%Y-%m-%d %H:%M:%S" text of datetime.now() both drop the sub-second     *)
(* part: Sec(now).  The text is a local time, and strptime/timestamp turn  *)
(* it back into an instant in the zone of the machine.  The zone either    *)
(* keeps one UTC offset, or its clocks went back an hour at the instant    *)
(* the clock of the model starts, so that the behaviours lie in the hour   *)
(* the zone's clocks show twice.                                           *)
(*                                                                         *)
(* Remote.  getGames answers with the finished tables of both players      *)
(* whose finish second lies in [start_date, end_date], newest first,       *)
(* PageSize to a page; the tables it holds are well formed.                *)
(***************************************************************************)
EXTENDS Integers, Sequences, FiniteSets, TLC

\* ------------------------------------------------------------------ bounds
MaxTime == 8          \* the clock stops at MaxTime half seconds
MaxRuns == 2          \* runs of scrape_and_analyze in one behaviour
PageSize == 2         \* tables the remote puts on one page
MaxAgg == 3           \* match records aggregated in one SpecAgg behaviour
MaxElo == 900         \* the largest input of _categorize_by_elo
MaxEntries == 3       \* entries of the field value given to send_discord_message
MaxPlayers == 7       \* players of one tier of the report
MaxTierGames == 20    \* games of one tier of the game list
MaxUsers == 4         \* tracked users of a run of the pair loop
MaxPages == 2         \* pages of games of one pair
MaxBestUsers == 3     \* players of the game whose best player is looked for
MaxTotal == 3         \* games a player of that game has played
MaxSeats == 3         \* players of a table whose places are classified
MaxPosts == 3         \* submissions the search of fpl_news returns
MaxFmtPlayers == 11   \* players of one sign given to format_message

\* --------------------------------------------------------- program constants
DefaultStart == 1609459200
FieldLimit == 1024
SepLen == 2           \* len("\n\n")
PrefixLen == 2        \* len("\u00A0\n")
BulletLen == 4        \* the bullet and the space that start an entry
StatFixedLen == 30    \* the text of a player's entry around name and numbers
WinnerFixedLen == 16  \* the text of a game's entry around names and numbers
TopN == 10            \* risers and fallers listed by format_message
NoWinnerLen == 18     \* len("\n  <crown> No winners"), as the source holds it

\* last_update is a text, <<second>> here; None is the empty one
None == <<>>

\* ----------------------------------------------------------------- helpers
Range(s) == {s[i] : i \in DOMAIN s}

RECURSIVE SeqSum(_)
SeqSum(s) == IF s = <<>> THEN 0 ELSE Head(s) + SeqSum(Tail(s))

Max(S) == CHOOSE x \in S : \A y \in S : y <= x

\* ------------------------------------------------------------ the tracker
\* first_time_setup / update_analysis: the tracked users (three of them here)
UserIds == <<"u1", "u2", "u3">>
UserNames == <<"A", "B", "C">>
ExcludeGameIds == {"1015", "1804", "1937"}

NameOf(id) == UserNames[CHOOSE k \in DOMAIN UserIds : UserIds[k] = id]

\* The tables the remote may come to hold.  ranks are the comma separated
\* ranks of the response, player_names the names in the same order.
Tables ==
  <<[game_id |-> "g1", game_name |-> "Chess",
     player_names |-> <<"A", "B">>, ranks |-> <<1, 2>>],
    [game_id |-> "g1", game_name |-> "Chess",
     player_names |-> <<"X", "C", "A", "B">>, ranks |-> <<1, 2, 3, 4>>],
    [game_id |-> "1015", game_name |-> "Turing",
     player_names |-> <<"A", "B">>, ranks |-> <<1, 2>>],
    [game_id |-> "g2", game_name |-> "Go",
     player_names |-> <<"B", "A", "C">>, ranks |-> <<1, 2, 3>>],
    [game_id |-> "g2", game_name |-> "Go",
     player_names |-> <<"C", "B">>, ranks |-> <<1, 1>>]>>
TableIds == DOMAIN Tables
\* the tables the remote finishes while the tracker runs: first table 1,
\* then tables 2 and 3 within one second
Rounds == <<{1}, {2, 3}>>

VARIABLES
  now,             \* the clock, in half seconds since DefaultStart
  finish,          \* remote: finished table id -> the second it finished
  file,            \* data/bga_games_database.json: exists, content
  pc,              \* where the current run of scrape_and_analyze stands
  first_time,      \* the run's first_time argument
  database,        \* the run's local `database`
  game_history,    \* self._game_history, in insertion order
  start_timestamp, \* _get_all_games_between_friends' start_timestamp
  pi, pj,          \* the indices i, j of the pair loop
  number,          \* _get_common_game's page number
  runs,            \* runs started so far
  failed,          \* whether a getGames request has failed so far
  counted,         \* history: table id -> runs whose aggregation counted it
  stored,          \* history: table id -> times this run stored it (line 236)
  fileOps,         \* history: the file operations of the current run
  runStart,        \* history: Sec(now) when the current run started
  lateFirst,       \* history: a first_time run was started after another run
  setupFirst,      \* history: the first run was a first_time run
  zone,            \* the local time zone of the machine
  effects          \* history: what the current run did after its fetching

mainVars == <<now, finish, file, pc, first_time, database, game_history,
              start_timestamp, pi, pj, number, runs, failed, counted,
              stored, fileOps, runStart, lateFirst, setupFirst, zone, effects>>

Sec(n) == DefaultStart + (n \div 2)

\* The zone of the machine keeps one offset ("fixed"), or its clocks went
\* back by Fold seconds at the instant FallBack ("fall_back"): the local times
\* of the Fold seconds from FallBack on are those of the Fold seconds before.
Zones == {"fixed", "fall_back"}
Fold == 60 * 60
FallBack == DefaultStart

\* what the local clock is ahead of the zone's standard time at an instant
LocalOffset(utc) == IF zone = "fall_back" /\ utc < FallBack THEN Fold ELSE 0

\* datetime.now().strftime("%Y-%m-%d %H:%M:%S"): the local second, as text
FormatTime(n) == <<Sec(n) + LocalOffset(Sec(n))>>
\* int(datetime.strptime(text, "%Y-%m-%d %H:%M:%S").timestamp()): the instant
\* of a local time, the earlier one when the zone has two
ParseTime(text) ==
  IF zone = "fall_back" /\ text[1] - Fold < FallBack THEN text[1] - Fold
  ELSE text[1]

EmptyUsers == [u \in {} |-> 0]
EmptyDatabase == [games |-> [g \in {} |-> 0], last_update |-> None]
NoFile == [exists |-> FALSE, content |-> EmptyDatabase]

\* ------------------------------------------------- _get_common_game: a table
Tracked(name) == name \in Range(UserNames)

Largest(ranks) == Max(Range(ranks))

\* lines 214-223: the place of player i of a table, and with the test of
\* rank 2 put before the test of the largest rank
PlacementSecondFirst(tbl, i) ==
  LET ranking == tbl.ranks[i]
      name == tbl.player_names[i]
  IN  IF ranking = 1 /\ Tracked(name) THEN "winners"
      ELSE IF ranking = 2 /\ Tracked(name) THEN "runner_ups"
      ELSE IF ranking = Largest(tbl.ranks) /\ Tracked(name) THEN "lasts"
      ELSE IF Tracked(name) THEN "losers"
      ELSE "none"
Placement(tbl, i) ==
  LET ranking == tbl.ranks[i]
      name == tbl.player_names[i]
  IN  IF ranking = 1 /\ Tracked(name) THEN "winners"
      ELSE IF ranking = Largest(tbl.ranks) /\ Tracked(name) THEN "lasts"
      ELSE IF ranking = 2 /\ Tracked(name) THEN "runner_ups"
      ELSE IF Tracked(name) THEN "losers"
      ELSE "none"

RECURSIVE PlacedFrom(_, _, _)
PlacedFrom(tbl, kind, i) ==
  IF i > Len(tbl.ranks) THEN <<>>
  ELSE (IF Placement(tbl, i) = kind THEN <<tbl.player_names[i]>> ELSE <<>>)
       \o PlacedFrom(tbl, kind, i + 1)

\* lines 226-234
GameData(t) ==
  [game_id |-> Tables[t].game_id,
   game_name |-> Tables[t].game_name,
   table_id |-> t,
   winners |-> PlacedFrom(Tables[t], "winners", 1),
   runner_ups |-> PlacedFrom(Tables[t], "runner_ups", 1),
   losers |-> PlacedFrom(Tables[t], "losers", 1),
   lasts |-> PlacedFrom(Tables[t], "lasts", 1)]

InHistory(hist, t) == \E k \in DOMAIN hist : hist[k].table_id = t

\* lines 203-204
StoreGuardNoDedup(hist, t) == Tables[t].game_id \notin ExcludeGameIds
StoreGuardNoExclusion(hist, t) == ~InHistory(hist, t)
StoreGuard(hist, t) ==
  ~InHistory(hist, t) /\ Tables[t].game_id \notin ExcludeGameIds

\* line 236: self._game_history[table_id] = game_data, a dict assignment
PutGame(hist, data) ==
  IF InHistory(hist, data.table_id)
  THEN [k \in DOMAIN hist |->
          IF hist[k].table_id = data.table_id THEN data ELSE hist[k]]
  ELSE Append(hist, data)

\* lines 198-237: the tables of one page, in the order of the response
RECURSIVE StoreTables(_, _)
StoreTables(hist, page) ==
  IF page = <<>> THEN hist
  ELSE StoreTables(IF StoreGuard(hist, Head(page))
                   THEN PutGame(hist, GameData(Head(page)))
                   ELSE hist,
                   Tail(page))

\* --------------------------------------------------- the remote's getGames
Played(t, id) == NameOf(id) \in Range(Tables[t].player_names)

Matching(fin, player, opponent, start_date, end_date) ==
  {t \in DOMAIN fin : /\ Played(t, player) /\ Played(t, opponent)
                    /\ start_date <= fin[t] /\ fin[t] <= end_date}

\* newest first
Newer(fin, a, b) == fin[a] > fin[b] \/ (fin[a] = fin[b] /\ a > b)

RECURSIVE Sorted(_, _)
Sorted(fin, S) ==
  IF S = {} THEN <<>>
  ELSE LET top == CHOOSE a \in S : \A b \in S \ {a} : Newer(fin, a, b)
       IN  <<top>> \o Sorted(fin, S \ {top})

RemotePage(fin, player, opponent, start_date, end_date, page) ==
  LET all == Sorted(fin, Matching(fin, player, opponent, start_date, end_date))
      lo == (page - 1) * PageSize + 1
      hi == IF page * PageSize < Len(all) THEN page * PageSize ELSE Len(all)
  IN  IF lo > Len(all) THEN <<>> ELSE SubSeq(all, lo, hi)

\* ------------------------------------------------------ _find_common_games
NewUser(w, s, l) == [win |-> w, second |-> s, last |-> l, total |-> 1]

\* lines 373-378
AddWinner(users, name) ==
  IF name \notin DOMAIN users THEN users @@ (name :> NewUser(1, 0, 0))
  ELSE [users EXCEPT ![name].win = @ + 1, ![name].total = @ + 1]

\* lines 380-385
AddRunnerUp(users, name) ==
  IF name \notin DOMAIN users THEN users @@ (name :> NewUser(0, 1, 0))
  ELSE [users EXCEPT ![name].second = @ + 1, ![name].total = @ + 1]

\* lines 387-391
AddLoserDecrement(users, name) ==
  IF name \notin DOMAIN users THEN users @@ (name :> NewUser(0, 0, 0))
  ELSE [users EXCEPT ![name].total = @ - 1]
AddLoserForgotten(users, name) ==
  IF name \notin DOMAIN users THEN users @@ (name :> NewUser(0, 0, 0))
  ELSE users
AddLoser(users, name) ==
  IF name \notin DOMAIN users THEN users @@ (name :> NewUser(0, 0, 0))
  ELSE [users EXCEPT ![name].total = @ + 1]

\* lines 393-398
AddLast(users, name) ==
  IF name \notin DOMAIN users THEN users @@ (name :> NewUser(0, 0, 1))
  ELSE [users EXCEPT ![name].total = @ + 1, ![name].last = @ + 1]

RECURSIVE AddAll(_, _, _)
AddAll(users, names, kind) ==
  IF names = <<>> THEN users
  ELSE AddAll(CASE kind = "winners" -> AddWinner(users, Head(names))
                [] kind = "runner_ups" -> AddRunnerUp(users, Head(names))
                [] kind = "losers" -> AddLoser(users, Head(names))
                [] OTHER -> AddLast(users, Head(names)),
              Tail(names), kind)

\* lines 360-398: one game of the history
AddGame(db, game) ==
  LET games0 == IF game.game_id \in DOMAIN db.games THEN db.games
                ELSE db.games @@ (game.game_id :>
                       [game_name |-> game.game_name, users |-> EmptyUsers])
      u0 == games0[game.game_id].users
      u1 == AddAll(u0, game.winners, "winners")
      u2 == AddAll(u1, game.runner_ups, "runner_ups")
      u3 == AddAll(u2, game.losers, "losers")
      u4 == AddAll(u3, game.lasts, "lasts")
  IN  [db EXCEPT !.games = [games0 EXCEPT ![game.game_id].users = u4]]

\* lines 359-400
RECURSIVE FindCommonGames(_, _)
FindCommonGames(db, hist) ==
  IF hist = <<>> THEN db
  ELSE FindCommonGames(AddGame(db, Head(hist)), Tail(hist))

\* ------------------------------------------------------- scrape_and_analyze
NumUsers == Len(UserIds)

\* lines 267-268: of n users the pair after (i, j), or <<>> after the last
\* one; and with the outer loop left after its first turn
PairAfterFirstRowOnly(n, i, j) == IF j < n THEN <<i, j + 1>> ELSE <<>>
PairAfter(n, i, j) ==
  IF j < n THEN <<i, j + 1>>
  ELSE IF i + 2 <= n THEN <<i + 1, i + 2>>
  ELSE <<>>
NextPair(i, j) == PairAfter(NumUsers, i, j)

ZeroCount == [t \in TableIds |-> 0]

MainInit ==
  /\ now = 0
  /\ finish = [t \in {} |-> 0]
  /\ file = NoFile
  /\ pc = "idle"
  /\ first_time = FALSE
  /\ database = EmptyDatabase
  /\ game_history = <<>>
  /\ start_timestamp = DefaultStart
  /\ pi = 1
  /\ pj = 2
  /\ number = 1
  /\ runs = 0
  /\ failed = FALSE
  /\ counted = ZeroCount
  /\ stored = ZeroCount
  /\ fileOps = <<>>
  /\ runStart = DefaultStart
  /\ lateFirst = FALSE
  /\ setupFirst = FALSE
  /\ zone \in Zones
  /\ effects = <<>>

\* the remote: the tables of a round finish, while a request may still come
\* to see them
FinishTables(r) ==
  /\ now < MaxTime
  /\ Rounds[r] \cap DOMAIN finish = {}
  /\ \A o \in 1..(r - 1) : Rounds[o] \subseteq DOMAIN finish
  /\ finish' = finish @@ [t \in Rounds[r] |-> Sec(now)]
  /\ UNCHANGED <<now, file, pc, first_time, database, game_history,
                 start_timestamp, pi, pj, number, runs, failed, counted,
                 stored, fileOps, runStart, lateFirst, setupFirst, zone, effects>>

\* time passes, during any step or between two runs
Tick ==
  /\ now < MaxTime
  /\ now' = now + 1
  /\ UNCHANGED <<finish, file, pc, first_time, database, game_history,
                 start_timestamp, pi, pj, number, runs, failed, counted,
                 stored, fileOps, runStart, lateFirst,
                 setupFirst, zone, effects>>

\* first_time_setup / update_analysis: a new tracker (lines 29-50), then
\* scrape_and_analyze up to the login (lines 671-673)
StartRun(ft) ==
  /\ pc = "idle"
  /\ now < MaxTime
  /\ runs < MaxRuns
  /\ runs' = runs + 1
  /\ first_time' = ft
  /\ game_history' = <<>>
  /\ stored' = ZeroCount
  /\ fileOps' = <<>>
  /\ runStart' = Sec(now)
  /\ lateFirst' = (lateFirst \/ (ft /\ runs > 0))
  /\ setupFirst' = IF runs = 0 THEN ft ELSE setupFirst
  /\ pc' = "login"
  /\ effects' = <<>>
  /\ UNCHANGED <<now, finish, file, database, start_timestamp, pi, pj,
                 number, failed, counted, zone>>

\* _load_database, lines 467-473
LoadDatabase(f) == IF f.exists THEN f.content ELSE EmptyDatabase

\* lines 682-684 and 259-262: the start of the window
StartTimestampIgnoringFlag(ft, db) ==
  IF db.last_update # None THEN ParseTime(db.last_update) ELSE DefaultStart
StartTimestamp(ft, db) ==
  IF ~ft /\ db.last_update # None THEN ParseTime(db.last_update)
  ELSE DefaultStart

\* scrape_and_analyze returns: the tracker and the locals of the run are gone
Return ==
  /\ pc' = "idle"
  /\ first_time' = FALSE
  /\ game_history' = <<>>
  /\ stored' = ZeroCount
  /\ start_timestamp' = DefaultStart
  /\ runStart' = DefaultStart
  /\ pi' = 1
  /\ pj' = 2
  /\ number' = 1

\* lines 675-677: the login failed
LoginFailedWithLogout ==
  /\ Return
  /\ effects' = Append(effects, "logout")
  /\ UNCHANGED <<database, file, fileOps>>
LoginFailed ==
  /\ Return
  /\ UNCHANGED <<database, file, fileOps, effects>>

\* lines 675-684, and 258-268 of _get_all_games_between_friends: the login,
\* and after a login that succeeds the load and the start of the window
LoginCreatingFile(ok) ==
  /\ pc = "login"
  /\ IF ok
     THEN /\ database' = LoadDatabase(file)
          /\ file' = IF file.exists THEN file
                     ELSE [exists |-> TRUE, content |-> EmptyDatabase]
          /\ fileOps' = IF file.exists THEN Append(fileOps, "read")
                        ELSE fileOps \o <<"read", "write">>
          /\ start_timestamp' = StartTimestamp(first_time, database')
          /\ pc' = "fetch"
          /\ pi' = 1
          /\ pj' = 2
          /\ number' = 1
          /\ UNCHANGED <<first_time, game_history, stored, runStart,
                         effects>>
     ELSE LoginFailed
  /\ UNCHANGED <<now, finish, runs, failed, counted, lateFirst, setupFirst,
                 zone>>
Login(ok) ==
  /\ pc = "login"
  /\ IF ok
     THEN /\ database' = LoadDatabase(file)
          /\ fileOps' = Append(fileOps, "read")
          /\ start_timestamp' = StartTimestamp(first_time, database')
          /\ pc' = "fetch"
          /\ pi' = 1
          /\ pj' = 2
          /\ number' = 1
          /\ UNCHANGED <<file, first_time, game_history, stored, runStart,
                         effects>>
     ELSE LoginFailed
  /\ UNCHANGED <<now, finish, runs, failed, counted, lateFirst, setupFirst,
                 zone>>

\* _get_common_game returns and the pair loop goes on (lines 273-274), after
\* `slept` half seconds of sleep
LeavePairSkippingRest(slept) ==
  /\ now' = now + slept
  /\ number' = 1
  /\ pc' = "aggregate"
  /\ UNCHANGED <<pi, pj>>
LeavePair(slept) ==
  /\ now' = now + slept
  /\ number' = 1
  /\ IF NextPair(pi, pj) = <<>>
     THEN /\ pc' = "aggregate"
          /\ UNCHANGED <<pi, pj>>
     ELSE /\ pc' = "fetch"
          /\ pi' = NextPair(pi, pj)[1]
          /\ pj' = NextPair(pi, pj)[2]

\* the sleeps of one request that got a page: lines 240 and 274
SleepAfterPage == 1
SleepAfterPair == 1

\* one getGames request and what follows it (lines 169-244, 273-274)
FetchPage(outcome) ==
  /\ pc = "fetch"
  /\ now + SleepAfterPage <= MaxTime
  /\ LET end_date == Sec(now)
         page == RemotePage(finish, UserIds[pi], UserIds[pj],
                            start_timestamp, end_date, number)
     IN  IF outcome = "ok" /\ page # <<>>
         THEN /\ game_history' = StoreTables(game_history, page)
              /\ stored' = [t \in TableIds |->
                              IF t \in Range(page) /\ StoreGuard(game_history, t)
                              THEN stored[t] + 1 ELSE stored[t]]
              /\ number' = number + 1
              /\ now' = now + SleepAfterPage
              /\ UNCHANGED <<pc, pi, pj, failed>>
         ELSE /\ failed' = (failed \/ outcome # "ok")
              /\ LeavePair(SleepAfterPair)
              /\ UNCHANGED <<game_history, stored>>
  /\ UNCHANGED <<finish, file, first_time, database, start_timestamp, runs,
                 counted, fileOps, runStart, lateFirst,
                 setupFirst, zone, effects>>

\* what a requests.post of the report may do: answer 204, answer another
\* status, raise
PostOutcomes == {"204", "status", "raises"}
\* the history entry of one post of an embed (lines 586 and 650)
PostOf ==
  [stats |-> [o \in PostOutcomes |->
                CASE o = "204" -> "stats:204" [] o = "status" -> "stats:status"
                  [] OTHER -> "stats:raises"],
   list |-> [o \in PostOutcomes |->
               CASE o = "204" -> "list:204" [] o = "status" -> "list:status"
                 [] OTHER -> "list:raises"]]

\* _send_discord_embed (lines 551, 585-592): nothing without the webhook or
\* without a block; one post, whose outcome is printed and dropped
SendEmbed(eff, hook, some, embed, outcome) ==
  IF hook /\ some THEN Append(eff, PostOf[embed][outcome]) ELSE eff

\* _generate_report (lines 500-539): the blocks of the tiers that have
\* users, the embed of the statistics, then the game list (lines 601, 637)
GenerateReport(eff, db, hook, o1, o2) ==
  LET blocks == \E g \in DOMAIN db.games : DOMAIN db.games[g].users # {}
      fields == DOMAIN db.games # {}
  IN  SendEmbed(SendEmbed(eff, hook, blocks, "stats", o1),
                hook, fields, "list", o2)

\* where scrape_and_analyze stands after the report: both posts catch what
\* they raise (lines 590-592, 654-656), so at the save of line 699; and with
\* an exception of a post ending the run
AfterReportRaising(hook, o1, o2) ==
  IF hook /\ (o1 = "raises" \/ o2 = "raises") THEN "idle" ELSE "save"
AfterReport(hook, o1, o2) == "save"

\* lines 690-696: _find_common_games, then the analysis and the report,
\* which leave the database as it is.  hook: DISCORD_WEBHOOK was set when
\* the tracker of the run was made (line 50); o1, o2: what the two posts do
Aggregate(hook, o1, o2) ==
  /\ pc = "aggregate"
  /\ database' = FindCommonGames(database, game_history)
  /\ counted' = [t \in TableIds |->
                   IF InHistory(game_history, t) THEN counted[t] + 1
                   ELSE counted[t]]
  /\ effects' = GenerateReport(effects, database', hook, o1, o2)
  /\ pc' = AfterReport(hook, o1, o2)
  /\ UNCHANGED <<now, finish, file, first_time, game_history,
                 start_timestamp, pi, pj, number, runs, failed, stored,
                 fileOps, runStart, lateFirst, setupFirst, zone>>

\* lines 699-707: last_update, _save_database, and the logout that ends the
\* run
Save ==
  /\ pc = "save"
  /\ database' = [database EXCEPT !.last_update = FormatTime(now)]
  /\ file' = [exists |-> TRUE, content |-> database']
  /\ fileOps' = Append(fileOps, "write")
  /\ effects' = Append(effects, "logout")
  /\ Return
  /\ UNCHANGED <<now, finish, runs, failed, counted, lateFirst, setupFirst,
                 zone>>

\* ------------------------------------------------------ _categorize_by_elo
VARIABLES
  elo,      \* the argument: None, or <<points above 1300>>
  eloCat    \* the returned category, "" before the call

eloVars == <<elo, eloCat>>

\* lines 333-344
CategorizeByEloAtLeast(e) ==
  IF e = None THEN "<500"
  ELSE IF e[1] >= 800 THEN ">800"
  ELSE IF e[1] >= 700 THEN "700-800"
  ELSE IF e[1] >= 600 THEN "600-700"
  ELSE IF e[1] >= 500 THEN "500-600"
  ELSE "<500"
CategorizeByElo(e) ==
  IF e = None THEN "<500"
  ELSE IF e[1] > 800 THEN ">800"
  ELSE IF e[1] >= 700 THEN "700-800"
  ELSE IF e[1] >= 600 THEN "600-700"
  ELSE IF e[1] >= 500 THEN "500-600"
  ELSE "<500"

\* _get_game_elo returns None or max(0, round(top - 1300)) (lines 307-315)
EloInputs == {None} \cup {<<n>> : n \in 0..MaxElo}

EloIdle == elo = None /\ eloCat = ""
EloInit == elo \in EloInputs /\ eloCat = ""

\* line 420
Categorize ==
  /\ eloCat = ""
  /\ eloCat' = CategorizeByElo(elo)
  /\ UNCHANGED elo

\* --------------------------------- _find_common_games, by order and by split
VARIABLES
  aggOrder,   \* the match records (table ids), in the order they are processed
  aggSplit,   \* the first aggSplit of them belong to a first run
  aggOne,     \* the database of one run over all of them, in table id order
  aggTwo,     \* the database of two runs that share it, in aggOrder
  aggPc

aggVars == <<aggOrder, aggSplit, aggOne, aggTwo, aggPc>>

\* the tables whose records reach a history (line 204)
AggTables == {t \in TableIds : Tables[t].game_id \notin ExcludeGameIds}

Orders ==
  {o \in UNION {[1..n -> AggTables] : n \in 0..MaxAgg} :
     \A i, k \in DOMAIN o : i # k => o[i] # o[k]}

RECURSIVE Ascending(_)
Ascending(S) ==
  IF S = {} THEN <<>>
  ELSE LET lo == CHOOSE a \in S : \A b \in S : a <= b
       IN  <<lo>> \o Ascending(S \ {lo})

HistoryOf(ids) == [k \in DOMAIN ids |-> GameData(ids[k])]

AggIdle ==
  /\ aggOrder = <<>> /\ aggSplit = 0
  /\ aggOne = EmptyDatabase /\ aggTwo = EmptyDatabase
  /\ aggPc = "idle"

AggInit ==
  /\ aggOrder \in Orders
  /\ aggSplit \in 0..Len(aggOrder)
  /\ aggOne = EmptyDatabase /\ aggTwo = EmptyDatabase
  /\ aggPc = "one"

AggOneRun ==
  /\ aggPc = "one"
  /\ aggOne' = FindCommonGames(EmptyDatabase,
                               HistoryOf(Ascending(Range(aggOrder))))
  /\ aggPc' = "first"
  /\ UNCHANGED <<aggOrder, aggSplit, aggTwo>>

AggFirstRun ==
  /\ aggPc = "first"
  /\ aggTwo' = FindCommonGames(EmptyDatabase,
                               HistoryOf(SubSeq(aggOrder, 1, aggSplit)))
  /\ aggPc' = "second"
  /\ UNCHANGED <<aggOrder, aggSplit, aggOne>>

AggSecondRun ==
  /\ aggPc = "second"
  /\ aggTwo' = FindCommonGames(aggTwo,
                 HistoryOf(SubSeq(aggOrder, aggSplit + 1, Len(aggOrder))))
  /\ aggPc' = "done"
  /\ UNCHANGED <<aggOrder, aggSplit, aggOne>>

\* ------------------------------------------- fpl_price.send_discord_message
\* A field value is a text of entries joined by "\n\n".  It is held as the
\* sequence of its lines (the pieces between the "\n\n"): the entry's number
\* in the original value, its length, and whether it is preceded by the
\* " \n" that a continuation part starts with.  An entry holds no "\n\n"
\* and neither starts nor ends with white space.
VARIABLES
  embedGiven,     \* embed_data["fields"] as the caller gave them
  embedFields,    \* embed_data["fields"]
  payloadFields,  \* the fields of the posted payload, <<>> before the post
  splitPc

splitVars == <<embedGiven, embedFields, payloadFields, splitPc>>

ZeroWidthName == "\\u200B\\u2060"

LineLen(l) == l.len + (IF l.pre THEN PrefixLen ELSE 0)

\* len(field["value"])
ValueLen(v) ==
  IF v = <<>> THEN 0
  ELSE SeqSum([k \in DOMAIN v |-> LineLen(v[k])]) + SepLen * (Len(v) - 1)

\* len(current_value), every line of which is followed by "\n\n"
CurrentLen(c) == SeqSum([k \in DOMAIN c |-> LineLen(c[k]) + SepLen])

\* current_value.strip(): the "\n\n" at the end goes, and so does a
\* " \n" at the start
Strip(c) == IF c = <<>> THEN c ELSE [c EXCEPT ![1].pre = FALSE]

\* lines 299-308
RECURSIVE SplitLines(_, _, _)
SplitLines(lines, current_value, field_parts) ==
  IF lines = <<>>
  THEN IF current_value # <<>>
       THEN Append(field_parts, Strip(current_value))
       ELSE field_parts
  ELSE LET line == Head(lines)
       IN  IF CurrentLen(current_value) + LineLen(line) + SepLen > FieldLimit
           THEN SplitLines(Tail(lines), <<line>>,
                           IF current_value # <<>>
                           THEN Append(field_parts, Strip(current_value))
                           ELSE field_parts)
           ELSE SplitLines(Tail(lines), Append(current_value, line),
                           field_parts)

\* lines 314-323: the field that takes the place of part i
PartField(field, part, i) ==
  [name |-> IF i = 1 THEN field.name ELSE ZeroWidthName,
   value |-> IF i = 1 THEN part ELSE [part EXCEPT ![1].pre = TRUE]]

\* lines 311-323, and with the parts put behind the last field
ReplaceFieldAtEnd(fields, field) ==
  LET field_parts == SplitLines(field.value, <<>>, <<>>)
      field_index == CHOOSE k \in DOMAIN fields :
                       /\ fields[k] = field
                       /\ \A o \in 1..(k - 1) : fields[o] # field
  IN  SubSeq(fields, 1, field_index - 1)
      \o SubSeq(fields, field_index + 1, Len(fields))
      \o [i \in DOMAIN field_parts |-> PartField(field, field_parts[i], i)]
ReplaceField(fields, field) ==
  LET field_parts == SplitLines(field.value, <<>>, <<>>)
      field_index == CHOOSE k \in DOMAIN fields :
                       /\ fields[k] = field
                       /\ \A o \in 1..(k - 1) : fields[o] # field
  IN  SubSeq(fields, 1, field_index - 1)
      \o [i \in DOMAIN field_parts |-> PartField(field, field_parts[i], i)]
      \o SubSeq(fields, field_index + 1, Len(fields))

\* lines 292-323: the loop over the list, which it changes as it goes
RECURSIVE SplitFields(_, _)
SplitFields(fields, idx) ==
  IF idx > Len(fields) THEN fields
  ELSE IF ValueLen(fields[idx].value) > FieldLimit
       THEN SplitFields(ReplaceField(fields, fields[idx]), idx + 1)
       ELSE SplitFields(fields, idx + 1)

\* the lengths an entry may have
EntryLens ==
  {1, FieldLimit \div 2 - 2, FieldLimit \div 2 - 1, FieldLimit \div 2,
   FieldLimit - 3, FieldLimit - 2, FieldLimit - 1, FieldLimit, FieldLimit + 1}

\* a value of n entries, numbered 1..n
Values ==
  UNION {{[k \in 1..n |-> [id |-> k, len |-> lens[k], pre |-> FALSE]] :
            lens \in [1..n -> EntryLens]} : n \in 1..MaxEntries}

ShortField(nm) == [name |-> nm, value |-> <<[id |-> 0, len |-> 1, pre |-> FALSE]>>]

SplitIdle ==
  /\ embedGiven = <<>> /\ embedFields = <<>> /\ payloadFields = <<>>
  /\ splitPc = "idle"

SplitInit ==
  /\ \E v \in Values, before \in BOOLEAN, after \in BOOLEAN :
       embedFields = (IF before THEN <<ShortField("before")>> ELSE <<>>)
                     \o <<[name |-> "TOP 10", value |-> v]>>
                     \o (IF after THEN <<ShortField("after")>> ELSE <<>>)
  /\ embedGiven = embedFields
  /\ payloadFields = <<>>
  /\ splitPc = "ready"

\* lines 292-334
SendDiscordMessage ==
  /\ splitPc = "ready"
  /\ embedFields' = SplitFields(embedFields, 1)
  /\ payloadFields' = embedFields'
  /\ splitPc' = "sent"
  /\ UNCHANGED embedGiven

\* ------------------------- the report of the tracker: the values of a tier
\* Texts are held by their lengths, counted in the characters of the source.
VARIABLES
  tierUsers,       \* analyzed_games[category]: name length and counters
  tierGames,       \* _elo_category_dict[key], with _game_winner of each game
  embedPosted,     \* the field values (lengths) of the posted statistics
  gameListPosted,  \* the field values (lengths) of the posted game list
  embedPc

embedVars == <<tierUsers, tierGames, embedPosted, gameListPosted, embedPc>>

RECURSIVE Digits(_)
Digits(n) == IF n < 10 THEN 1 ELSE 1 + Digits(n \div 10)

\* round(a / b * 100) if b > 0 else 0 (lines 522-524, 620)
RoundPct(a, b) ==
  IF b > 0
  THEN LET q == (100 * a) \div b
           r == (100 * a) % b
       IN  IF 2 * r > b THEN q + 1
           ELSE IF 2 * r < b THEN q
           ELSE IF q % 2 = 0 THEN q ELSE q + 1
  ELSE 0

\* lines 522-531: the entry of one player, bullet included
StatEntryLen(u) ==
  BulletLen + u.nameLen + StatFixedLen
  + Digits(u.win) + Digits(u.total) + Digits(RoundPct(u.win, u.total))
  + Digits(u.second) + Digits(u.total) + Digits(RoundPct(u.second, u.total))
  + Digits(u.last) + Digits(u.total) + Digits(RoundPct(u.last, u.total))

\* "\n".join of n texts
JoinLen(lens) == IF lens = <<>> THEN 0 ELSE SeqSum(lens) + (Len(lens) - 1)

\* lines 531 and 557-565: the value of the field of a tier
StatsFieldLen(users) == JoinLen([k \in DOMAIN users |-> StatEntryLen(users[k])])

\* lines 615-624: the entry of one game
GameEntryLen(g) ==
  IF g.winner # <<>>
  THEN BulletLen + g.nameLen + WinnerFixedLen + g.winner[1].nameLen
       + Digits(g.winner[1].wins) + Digits(g.winner[1].total)
       + Digits(RoundPct(g.winner[1].wins, g.winner[1].total))
  ELSE BulletLen + g.nameLen + NoWinnerLen

\* line 627
GameListLen(games) == JoinLen([k \in DOMAIN games |-> GameEntryLen(games[k])])

PlayerShapes ==
  {[nameLen |-> 5, win |-> 1, second |-> 0, last |-> 0, total |-> 1],
   [nameLen |-> 15, win |-> 12, second |-> 30, last |-> 8, total |-> 100]}

GameShapes ==
  {[nameLen |-> 10, winner |-> <<>>],
   [nameLen |-> 20,
    winner |-> <<[nameLen |-> 15, wins |-> 3, total |-> 10]>>]}

EmbedIdle ==
  /\ tierUsers = <<>> /\ tierGames = <<>>
  /\ embedPosted = <<>> /\ gameListPosted = <<>>
  /\ embedPc = "idle"

EmbedInit ==
  /\ \E n \in 0..MaxPlayers, u \in PlayerShapes : tierUsers = [k \in 1..n |-> u]
  /\ \E m \in 0..MaxTierGames, g \in GameShapes : tierGames = [k \in 1..m |-> g]
  /\ embedPosted = <<>> /\ gameListPosted = <<>>
  /\ embedPc = "embed"

\* _send_discord_embed (lines 551-592), the webhook being set
SendDiscordEmbed ==
  /\ embedPc = "embed"
  /\ embedPosted' = IF tierUsers = <<>> THEN <<>>
                    ELSE <<StatsFieldLen(tierUsers)>>
  /\ embedPc' = "games"
  /\ UNCHANGED <<tierUsers, tierGames, gameListPosted>>

\* _send_discord_game_list (lines 601-656), the webhook being set
SendDiscordGameList ==
  /\ embedPc = "games"
  /\ gameListPosted' = IF tierGames = <<>> THEN <<>>
                       ELSE <<GameListLen(tierGames)>>
  /\ embedPc' = "done"
  /\ UNCHANGED <<tierUsers, tierGames, embedPosted>>

\* ------------------------------------------------ fpl_price.format_message
VARIABLES
  players_data,  \* the argument: players, each with an id and a
                 \* prediction_value
  embeds,        \* the returned list
  fmtPc

fmtVars == <<players_data, embeds, fmtPc>>

\* the order of two keys under list.sort(key=prediction_value, reverse=...)
Before(a, b, reverse) == IF reverse THEN a > b ELSE a < b

\* list.sort is stable: a player goes behind every player of an equal key
\* that stood before it
RECURSIVE InsertSorted(_, _, _)
InsertSorted(sorted, p, reverse) ==
  IF sorted = <<>> THEN <<p>>
  ELSE IF Before(p.prediction_value, Head(sorted).prediction_value, reverse)
       THEN <<p>> \o sorted
       ELSE <<Head(sorted)>> \o InsertSorted(Tail(sorted), p, reverse)

RECURSIVE SortBy(_, _)
SortBy(list, reverse) ==
  IF list = <<>> THEN <<>>
  ELSE InsertSorted(SortBy(SubSeq(list, 1, Len(list) - 1), reverse),
                    list[Len(list)], reverse)

\* line 214, and without it
SortDescendingNot(list) == list
SortDescending(list) == SortBy(list, TRUE)
\* line 219
SortAscending(list) == SortBy(list, FALSE)

Take(list, n) == SubSeq(list, 1, IF Len(list) < n THEN Len(list) ELSE n)

\* lines 217-220, on the sorted list
Risers(sorted) == Take(SelectSeq(sorted, LAMBDA p : p.prediction_value > 0), TopN)
Fallers(sorted) ==
  Take(SortAscending(SelectSeq(sorted, LAMBDA p : p.prediction_value < 0)), TopN)

\* lines 206-270
FormatMessage(data) ==
  IF data = <<>> THEN <<[kind |-> "error", players |-> <<>>]>>
  ELSE LET sorted == SortDescending(data)
           risers == Risers(sorted)
           fallers == Fallers(sorted)
       IN  (IF risers # <<>>
            THEN <<[kind |-> "risers", players |-> risers]>> ELSE <<>>)
           \o (IF fallers # <<>>
               THEN <<[kind |-> "fallers", players |-> fallers]>> ELSE <<>>)

\* the lists given: n1 players of one sign, n2 of the other and nz of value
\* 0, the values running through a residue pattern, the list rotated
Rotate(list, r) ==
  [k \in DOMAIN list |-> list[((k + r - 1) % Len(list)) + 1]]
FmtValues(n1, n2, nz, a, b, m, sign) ==
  [k \in 1..n1 |-> sign * (((k * a + b) % m) + 1)]
    \o [k \in 1..n2 |-> (0 - sign) * (((k * a + b) % m) + 1)]
    \o [k \in 1..nz |-> 0]
FmtInputs ==
  {LET v == FmtValues(n1, n2, nz, a, b, m, sign)
       w == IF v = <<>> THEN v ELSE Rotate(v, r)
   IN  [k \in DOMAIN w |-> [id |-> k, prediction_value |-> w[k]]] :
     n1 \in 0..MaxFmtPlayers, n2 \in 0..2, nz \in 0..1, a \in 1..2,
     b \in 0..2, m \in {1, 3, 5}, sign \in {1, -1}, r \in {0, 1, 5}}

FmtIdle == players_data = <<>> /\ embeds = <<>> /\ fmtPc = "idle"
FmtInit == players_data \in FmtInputs /\ embeds = <<>> /\ fmtPc = "ready"

\* format_message sorts its argument in place (line 214) and returns
Format ==
  /\ fmtPc = "ready"
  /\ embeds' = FormatMessage(players_data)
  /\ players_data' = IF players_data = <<>> THEN players_data
                     ELSE SortDescending(players_data)
  /\ fmtPc' = "done"

\* ----------------------------------------------------------- fpl_news.main
VARIABLES
  utcNow,        \* datetime.now(timezone.utc), in seconds
  webhook,       \* DISCORD_WEBHOOK is set
  found,         \* what the search yields, in its order: the created_utc of
                 \* each submission
  start_time, end_time,
  idx,           \* the submission the loop is at
  attempts,      \* the submissions send_to_discord was called for, in order
  sent,          \* those whose post succeeded
  newsPc         \* "idle", "start", "loop", "returned", "raised"

newsVars == <<utcNow, webhook, found, start_time, end_time, idx, attempts,
              sent, newsPc>>

DayLen == 24 * 60 * 60
SixPM == 18 * 60 * 60
\* datetime.replace(hour=18, minute=0, second=0, microsecond=0) in UTC
At18(t) == (t - (t % DayLen)) + SixPM
\* lines 86-88
StartTime(t) == At18(t - DayLen)
EndTime(t) == At18(t)

\* the times of day of a run and, around both ends of its window, the
\* creation times of the submissions
NewsNows == {DefaultStart + DayLen + d : d \in {0, SixPM - 1, SixPM, DayLen - 1}}
Created(t) ==
  {StartTime(t) + d : d \in {-1, 0, 1}} \cup {EndTime(t) + d : d \in {-1, 0, 1}}
SearchResults(t) ==
  UNION {[1..n -> Created(t)] : n \in 0..MaxPosts}

NewsIdle ==
  /\ utcNow = DefaultStart /\ webhook = FALSE /\ found = <<>>
  /\ start_time = 0 /\ end_time = 0 /\ idx = 1
  /\ attempts = <<>> /\ sent = <<>> /\ newsPc = "idle"
NewsInit ==
  /\ utcNow \in NewsNows /\ webhook \in BOOLEAN
  /\ found \in SearchResults(utcNow)
  /\ start_time = 0 /\ end_time = 0 /\ idx = 1
  /\ attempts = <<>> /\ sent = <<>> /\ newsPc = "start"

\* lines 78-92: without the webhook main returns before the search
NewsStart ==
  /\ newsPc = "start"
  /\ IF webhook
     THEN /\ start_time' = StartTime(utcNow) /\ end_time' = EndTime(utcNow)
          /\ newsPc' = "loop"
     ELSE newsPc' = "returned" /\ UNCHANGED <<start_time, end_time>>
  /\ UNCHANGED <<utcNow, webhook, found, idx, attempts, sent>>

\* line 99, and with the end of the window let in
InWindowClosed(created) == start_time <= created /\ created <= end_time
InWindow(created) == start_time <= created /\ created < end_time

\* lines 38-44 and 107-109 when the post fails: the exception passes through
\* both handlers; and a handler that goes on with the next submission
SendFailedSwallowed ==
  /\ attempts' = Append(attempts, idx) /\ idx' = idx + 1
  /\ UNCHANGED <<sent, newsPc>>
SendFailed ==
  /\ attempts' = Append(attempts, idx) /\ newsPc' = "raised"
  /\ UNCHANGED <<sent, idx>>

\* lines 95-109: one turn of the loop, or its end; the listing may raise as
\* well
NewsStep(outcome) ==
  /\ newsPc = "loop"
  /\ UNCHANGED <<utcNow, webhook, found, start_time, end_time>>
  /\ IF outcome = "search_raises"
     THEN newsPc' = "raised" /\ UNCHANGED <<idx, attempts, sent>>
     ELSE IF idx > Len(found)
     THEN newsPc' = "returned" /\ UNCHANGED <<idx, attempts, sent>>
     ELSE IF ~InWindow(found[idx])
     THEN idx' = idx + 1 /\ UNCHANGED <<attempts, sent, newsPc>>
     ELSE IF outcome = "ok"
     THEN /\ attempts' = Append(attempts, idx) /\ sent' = Append(sent, idx)
          /\ idx' = idx + 1 /\ UNCHANGED newsPc
     ELSE SendFailed

\* ------------------------------- the places of one table (_get_common_game)
VARIABLES
  table,         \* the table of a page: player_names and ranks, seat by seat
  placed,        \* winners, runner_ups, losers, lasts as game_data has them
  placePc

placeVars == <<table, placed, placePc>>

\* who may sit at a table: the tracked names and one that is not tracked
Sitters == Range(UserNames) \cup {"X"}
SeatTables ==
  UNION {{[player_names |-> names, ranks |-> ranks] :
            names \in {f \in [1..n -> Sitters] :
                         \A k, h \in 1..n : k # h => f[k] # f[h]},
            ranks \in [1..n -> 1..MaxSeats]} : n \in 1..MaxSeats}

NothingPlaced ==
  [winners |-> <<>>, runner_ups |-> <<>>, losers |-> <<>>, lasts |-> <<>>]
PlaceIdle ==
  /\ table = [player_names |-> <<>>, ranks |-> <<>>]
  /\ placed = NothingPlaced /\ placePc = "idle"
PlaceInit == table \in SeatTables /\ placed = NothingPlaced /\ placePc = "ready"

\* lines 206-234
Place ==
  /\ placePc = "ready"
  /\ placed' = [winners |-> PlacedFrom(table, "winners", 1),
                runner_ups |-> PlacedFrom(table, "runner_ups", 1),
                losers |-> PlacedFrom(table, "losers", 1),
                lasts |-> PlacedFrom(table, "lasts", 1)]
  /\ placePc' = "done"
  /\ UNCHANGED table

\* ------------------------- the pair loop (_get_all_games_between_friends)
VARIABLES
  nUsers,        \* len(self._user_ids)
  pairI, pairJ,  \* i and j of the loops
  pageNo,        \* `number` of _get_common_game
  requests,      \* the getGames requests made: <<i, j, page>>, in order
  pairsPc

pairsVars == <<nUsers, pairI, pairJ, pageNo, requests, pairsPc>>

PairsIdle ==
  /\ nUsers = 0 /\ pairI = 1 /\ pairJ = 2 /\ pageNo = 1
  /\ requests = <<>> /\ pairsPc = "idle"
PairsInit ==
  /\ nUsers \in 0..MaxUsers /\ pairI = 1 /\ pairJ = 2 /\ pageNo = 1
  /\ requests = <<>> /\ pairsPc = "start"

\* lines 267-268: the first turn of the loops, if there is one
PairsStart ==
  /\ pairsPc = "start"
  /\ pairsPc' = IF nUsers >= 2 THEN "pages" ELSE "done"
  /\ UNCHANGED <<nUsers, pairI, pairJ, pageNo, requests>>

\* one request of _get_common_game for the pair (lines 167-190); `more`
\* says that it got tables, so that the next page is asked for (239-240),
\* otherwise the call returns and the loops go on (273-274, 267-268)
RequestPage(more) ==
  /\ pairsPc = "pages"
  /\ requests' = Append(requests, <<pairI, pairJ, pageNo>>)
  /\ IF more /\ pageNo < MaxPages
     THEN pageNo' = pageNo + 1 /\ UNCHANGED <<pairI, pairJ, pairsPc>>
     ELSE /\ pageNo' = 1
          /\ IF PairAfter(nUsers, pairI, pairJ) = <<>>
             THEN pairsPc' = "done" /\ UNCHANGED <<pairI, pairJ>>
             ELSE /\ pairI' = PairAfter(nUsers, pairI, pairJ)[1]
                  /\ pairJ' = PairAfter(nUsers, pairI, pairJ)[2]
                  /\ UNCHANGED pairsPc
  /\ UNCHANGED nUsers

\* ------------------------------- the best player of a game (_analyze_game)
VARIABLES
  gameUsers,     \* common_game["users"] in the order of the dict: the win
                 \* and total of each user, the user named by its place
  gameWinner,    \* self._game_winner[game_name]: <<user, win, total>>, or
                 \* None without an entry
  gameEntry,     \* what the game list says of the game
  bestPc

bestVars == <<gameUsers, gameWinner, gameEntry, bestPc>>

UserResults ==
  {r \in [win : 0..MaxTotal, total : 1..MaxTotal] : r.win <= r.total}
GameUsers == UNION {[1..n -> UserResults] : n \in 0..MaxBestUsers}

\* win / total of lines 441-442 as a fraction, 0 when total is 0; the
\* quotients of two small integers are equal or ordered as floats exactly as
\* the fractions are
RatioGreater(w1, t1, w2, t2) ==
  (IF t1 > 0 THEN w1 ELSE 0) * (IF t2 > 0 THEN t2 ELSE 1)
    > (IF t2 > 0 THEN w2 ELSE 0) * (IF t1 > 0 THEN t1 ELSE 1)
RatioEqual(w1, t1, w2, t2) ==
  ~RatioGreater(w1, t1, w2, t2) /\ ~RatioGreater(w2, t2, w1, t1)

\* lines 444-451: max_user, max_win, max_total after one more user; and
\* without the second test
BestStepRatioOnly(best, user, result) ==
  IF RatioGreater(result.win, result.total, best.max_win, best.max_total)
  THEN [max_user |-> <<user>>, max_win |-> result.win,
        max_total |-> result.total]
  ELSE best
BestStep(best, user, result) ==
  IF RatioGreater(result.win, result.total, best.max_win, best.max_total)
  THEN [max_user |-> <<user>>, max_win |-> result.win,
        max_total |-> result.total]
  ELSE IF /\ RatioEqual(result.win, result.total, best.max_win, best.max_total)
          /\ result.win > best.max_win
  THEN [max_user |-> <<user>>, max_win |-> result.win,
        max_total |-> result.total]
  ELSE best

\* lines 423-451: the loop over the users, from max_user = ""
RECURSIVE BestAfter(_, _)
BestAfter(users, n) ==
  IF n = 0 THEN [max_user |-> None, max_win |-> 0, max_total |-> 0]
  ELSE BestStep(BestAfter(users, n - 1), n, users[n])

\* lines 453-454
GameWinner(users) ==
  LET best == BestAfter(users, Len(users))
  IN  IF best.max_user # None
      THEN <<best.max_user[1], best.max_win, best.max_total>> ELSE None

\* lines 615-625: the entry of the game
GameEntry(winner) ==
  IF winner # None
  THEN [kind |-> "winner", name |-> winner[1], wins |-> winner[2],
        total |-> winner[3]]
  ELSE [kind |-> "No winners", name |-> 0, wins |-> 0, total |-> 0]

NoEntry == [kind |-> "", name |-> 0, wins |-> 0, total |-> 0]
BestIdle ==
  gameUsers = <<>> /\ gameWinner = None /\ gameEntry = NoEntry /\ bestPc = "idle"
BestInit ==
  /\ gameUsers \in GameUsers /\ gameWinner = None /\ gameEntry = NoEntry
  /\ bestPc = "ready"

AnalyzeGame ==
  /\ bestPc = "ready"
  /\ gameWinner' = GameWinner(gameUsers)
  /\ bestPc' = "analyzed"
  /\ UNCHANGED <<gameUsers, gameEntry>>

ListGame ==
  /\ bestPc = "analyzed"
  /\ gameEntry' = GameEntry(gameWinner)
  /\ bestPc' = "listed"
  /\ UNCHANGED <<gameUsers, gameWinner>>

\* ---------------------------------------------------------- specifications
vars == <<mainVars, eloVars, aggVars, splitVars, embedVars, fmtVars, newsVars,
          placeVars, pairsVars, bestVars>>

Init == MainInit /\ EloIdle /\ AggIdle /\ SplitIdle /\ EmbedIdle /\ FmtIdle /\ NewsIdle /\ PlaceIdle /\ PairsIdle /\ BestIdle
otherVars ==
  <<eloVars, aggVars, splitVars, embedVars, fmtVars, newsVars, placeVars,
    pairsVars, bestVars>>
Next ==
  \/ (\E r \in DOMAIN Rounds : FinishTables(r)) /\ UNCHANGED otherVars
  \/ Tick /\ UNCHANGED otherVars
  \/ (\E ft \in BOOLEAN : StartRun(ft)) /\ UNCHANGED otherVars
  \/ (\E ok \in BOOLEAN : Login(ok)) /\ UNCHANGED otherVars
  \/ (\E outcome \in {"ok", "http_error", "raises"} : FetchPage(outcome))
       /\ UNCHANGED otherVars
  \/ (\E hook \in BOOLEAN, o1 \in PostOutcomes, o2 \in PostOutcomes :
        Aggregate(hook, o1, o2)) /\ UNCHANGED otherVars
  \/ Save /\ UNCHANGED otherVars
Spec == Init /\ [][Next]_vars

InitElo == MainInit /\ EloInit /\ AggIdle /\ SplitIdle /\ EmbedIdle /\ FmtIdle /\ NewsIdle /\ PlaceIdle /\ PairsIdle /\ BestIdle
NextElo ==
  Categorize /\ UNCHANGED <<mainVars, aggVars, splitVars, embedVars, fmtVars, newsVars, placeVars, pairsVars, bestVars>>
SpecElo == InitElo /\ [][NextElo]_vars

InitAgg == MainInit /\ EloIdle /\ AggInit /\ SplitIdle /\ EmbedIdle /\ FmtIdle /\ NewsIdle /\ PlaceIdle /\ PairsIdle /\ BestIdle
NextAgg ==
  \/ AggOneRun /\ UNCHANGED <<mainVars, eloVars, splitVars, embedVars, fmtVars, newsVars, placeVars, pairsVars, bestVars>>
  \/ AggFirstRun /\ UNCHANGED <<mainVars, eloVars, splitVars, embedVars, fmtVars, newsVars, placeVars, pairsVars, bestVars>>
  \/ AggSecondRun /\ UNCHANGED <<mainVars, eloVars, splitVars, embedVars, fmtVars, newsVars, placeVars, pairsVars, bestVars>>
SpecAgg == InitAgg /\ [][NextAgg]_vars

InitSplit == MainInit /\ EloIdle /\ AggIdle /\ SplitInit /\ EmbedIdle /\ FmtIdle /\ NewsIdle /\ PlaceIdle /\ PairsIdle /\ BestIdle
NextSplit ==
  SendDiscordMessage /\ UNCHANGED <<mainVars, eloVars, aggVars, embedVars, fmtVars, newsVars, placeVars, pairsVars, bestVars>>
SpecSplit == InitSplit /\ [][NextSplit]_vars

InitEmbed == MainInit /\ EloIdle /\ AggIdle /\ SplitIdle /\ EmbedInit /\ FmtIdle /\ NewsIdle /\ PlaceIdle /\ PairsIdle /\ BestIdle
NextEmbed ==
  \/ SendDiscordEmbed /\ UNCHANGED <<mainVars, eloVars, aggVars, splitVars, fmtVars, newsVars, placeVars, pairsVars, bestVars>>
  \/ SendDiscordGameList /\ UNCHANGED <<mainVars, eloVars, aggVars, splitVars, fmtVars, newsVars, placeVars, pairsVars, bestVars>>
SpecEmbed == InitEmbed /\ [][NextEmbed]_vars

InitFormat == MainInit /\ EloIdle /\ AggIdle /\ SplitIdle /\ EmbedIdle /\ FmtInit /\ NewsIdle /\ PlaceIdle /\ PairsIdle /\ BestIdle
NextFormat ==
  Format /\ UNCHANGED <<mainVars, eloVars, aggVars, splitVars, embedVars, newsVars, placeVars, pairsVars, bestVars>>
SpecFormat == InitFormat /\ [][NextFormat]_vars

InitNews == MainInit /\ EloIdle /\ AggIdle /\ SplitIdle /\ EmbedIdle /\ FmtIdle /\ NewsInit /\ PlaceIdle /\ PairsIdle /\ BestIdle
NextNews ==
  \/ NewsStart /\ UNCHANGED <<mainVars, eloVars, aggVars, splitVars, embedVars, fmtVars, placeVars, pairsVars, bestVars>>
  \/ (\E outcome \in {"ok", "send_fails", "search_raises"} : NewsStep(outcome))
       /\ UNCHANGED <<mainVars, eloVars, aggVars, splitVars, embedVars, fmtVars, placeVars, pairsVars, bestVars>>
SpecNews == InitNews /\ [][NextNews]_vars

InitPlace ==
  /\ MainInit /\ EloIdle /\ AggIdle /\ SplitIdle /\ EmbedIdle /\ FmtIdle
  /\ NewsIdle /\ PlaceInit /\ PairsIdle /\ BestIdle
NextPlace ==
  Place /\ UNCHANGED <<mainVars, eloVars, aggVars, splitVars, embedVars,
                       fmtVars, newsVars, pairsVars, bestVars>>
SpecPlace == InitPlace /\ [][NextPlace]_vars

InitPairs ==
  /\ MainInit /\ EloIdle /\ AggIdle /\ SplitIdle /\ EmbedIdle /\ FmtIdle
  /\ NewsIdle /\ PlaceIdle /\ PairsInit /\ BestIdle
NextPairs ==
  \/ PairsStart /\ UNCHANGED <<mainVars, eloVars, aggVars, splitVars, embedVars,
                               fmtVars, newsVars, placeVars, bestVars>>
  \/ (\E more \in BOOLEAN : RequestPage(more))
       /\ UNCHANGED <<mainVars, eloVars, aggVars, splitVars, embedVars,
                      fmtVars, newsVars, placeVars, bestVars>>
SpecPairs == InitPairs /\ [][NextPairs]_vars

InitBest ==
  /\ MainInit /\ EloIdle /\ AggIdle /\ SplitIdle /\ EmbedIdle /\ FmtIdle
  /\ NewsIdle /\ PlaceIdle /\ PairsIdle /\ BestInit
NextBest ==
  \/ AnalyzeGame /\ UNCHANGED <<mainVars, eloVars, aggVars, splitVars, embedVars,
                                fmtVars, newsVars, placeVars, pairsVars>>
  \/ ListGame /\ UNCHANGED <<mainVars, eloVars, aggVars, splitVars, embedVars,
                             fmtVars, newsVars, placeVars, pairsVars>>
SpecBest == InitBest /\ [][NextBest]_vars

\* ------------------------------------------------------------------ claims
\* a run has ended with its save
RunSaved == pc = "idle" /\ fileOps = <<"read", "write">>

Participants(t) == {n \in Range(Tables[t].player_names) : Tracked(n)}

\* a non-excluded game with at least two tracked players
Eligible(t) ==
  Tables[t].game_id \notin ExcludeGameIds /\ Cardinality(Participants(t)) >= 2

TotalOf(db, g, u) ==
  IF g \in DOMAIN db.games /\ u \in DOMAIN db.games[g].users
  THEN db.games[g].users[u].total ELSE 0

GameIds == {Tables[t].game_id : t \in TableIds}

\* C1 (as claimed): over runs that share the database (a first_time run only
\* as the first one), no table adds to the counters of the database in more
\* than one run.
C1_NoDoubleCount == ~lateFirst => \A t \in TableIds : counted[t] <= 1

\* the same, on a machine whose zone keeps one offset
NoDoubleCountFixedZone ==
  (zone = "fixed" /\ ~lateFirst) => \A t \in TableIds : counted[t] <= 1

\* table 1 was counted by the first run, and a second, incremental run in a
\* zone of one offset has been through its queries, aggregation and save
\* without counting it again
FixedZoneSecondRun ==
  /\ zone = "fixed"
  /\ runs = 2 /\ pc = "save" /\ ~lateFirst /\ ~first_time
  /\ counted[1] = 1
  /\ ~InHistory(game_history, 1)

\* C2: within a run a table id is stored at most once and holds one place of
\* the history, a stored record never changes, and the aggregation adds to
\* the total of a player of a game at most 1 for each table of the history.
C2_DedupByTableId ==
  [][/\ \A t \in TableIds : stored'[t] <= 1
     /\ \A i, k \in DOMAIN game_history' :
          i # k => game_history'[i].table_id # game_history'[k].table_id
     /\ (pc # "idle" /\ pc' # "idle") =>
          /\ Len(game_history') >= Len(game_history)
          /\ \A k \in DOMAIN game_history : game_history'[k] = game_history[k]
     /\ (pc = "aggregate" /\ pc' = "save") =>
          \A g \in GameIds, u \in Range(UserNames) :
            TotalOf(database', g, u) - TotalOf(database, g, u)
              <= Cardinality({t \in TableIds :
                                /\ InHistory(game_history, t)
                                /\ Tables[t].game_id = g
                                /\ u \in Participants(t)})]_vars

\* table 2, finished before the run began, came back from the queries of
\* the pairs (A,B), (A,C) and now (B,C), and was stored once
C2_Witness ==
  /\ runs = 1 /\ ~failed /\ pc = "fetch"
  /\ pi = 2 /\ pj = 3 /\ number = 2
  /\ 2 \in DOMAIN finish
  /\ finish[2] < runStart
  /\ stored[2] = 1
  /\ InHistory(game_history, 2)

\* C3 (as claimed): after a first_time run and incremental runs, when a run
\* comes to its save, every eligible table that finished before that run
\* started has been counted; stated for behaviours without a failed request.
C3_CompleteCoverage ==
  (pc = "save" /\ ~failed /\ setupFirst /\ ~lateFirst) =>
    \A t \in DOMAIN finish :
      (Eligible(t) /\ finish[t] < runStart) => counted[t] >= 1

NonNegative(db) ==
  \A g \in DOMAIN db.games : \A u \in DOMAIN db.games[g].users :
    LET c == db.games[g].users[u]
    IN  c.win \in Nat /\ c.second \in Nat /\ c.last \in Nat /\ c.total \in Nat

NotDecreased(old, new) ==
  \A g \in DOMAIN old.games :
    /\ g \in DOMAIN new.games
    /\ \A u \in DOMAIN old.games[g].users :
         /\ u \in DOMAIN new.games[g].users
         /\ new.games[g].users[u].win >= old.games[g].users[u].win
         /\ new.games[g].users[u].second >= old.games[g].users[u].second
         /\ new.games[g].users[u].last >= old.games[g].users[u].last
         /\ new.games[g].users[u].total >= old.games[g].users[u].total

\* C6: every counter of the database, in memory and in the file, is a
\* non-negative integer, and no step decreases one.
C6_CountersNonNegative ==
  /\ [](NonNegative(database) /\ NonNegative(file.content))
  /\ [][/\ NotDecreased(database, database')
        /\ NotDecreased(file.content, file'.content)]_vars

\* player A, known to the database as winner of table 1, was counted again as
\* a loser of table 2, and B a second time as last
C6_Witness ==
  /\ pc = "save"
  /\ TotalOf(database, "g1", "A") = 2
  /\ database.games["g1"].users["A"].win = 1
  /\ database.games["g1"].users["B"].last = 2

InMemory == {"fetch", "aggregate", "save"}

\* C7: in a run whose login succeeds the file is read once, before any
\* request; it is written once, by the save that ends the run, with the
\* last_update of that moment; nothing else changes the file.
C7_FileLifecycle ==
  /\ [](/\ pc = "login" => fileOps = <<>>
        /\ pc \in InMemory => fileOps = <<"read">>
        /\ pc = "idle" => fileOps \in {<<>>, <<"read", "write">>})
  /\ [][/\ file' # file => (pc = "save" /\ pc' = "idle")
        /\ (pc = "save" /\ pc' = "idle") =>
             /\ file'.exists
             /\ file'.content.games = database.games
             /\ file'.content.last_update = FormatTime(now)
        /\ fileOps' # fileOps => pc \in {"idle", "login", "save"}]_vars

\* a second run has read the file, counted tables 1 and 2 in memory and
\* saved their counters
C7_Witness ==
  /\ runs = 2 /\ RunSaved
  /\ counted[1] = 1 /\ counted[2] = 1
  /\ TotalOf(file.content, "g1", "A") = 2
  /\ TotalOf(file.content, "g1", "C") = 1

\* C10: the requests of a run start at the stored last_update when the run is
\* incremental and the file holds one, and at DefaultStart otherwise; the
\* save sets last_update to the second of the save.
C10_WindowStart ==
  /\ [](pc \in InMemory \ {"save"} =>
          start_timestamp =
            IF ~first_time /\ file.exists /\ file.content.last_update # None
            THEN ParseTime(file.content.last_update) ELSE DefaultStart)
  /\ [][(pc = "save" /\ pc' = "idle") =>
          file'.content.last_update = FormatTime(now)]_vars

\* an incremental run queries from a stored last_update later than the default
C10_Witness ==
  /\ pc = "fetch" /\ ~first_time
  /\ file.exists /\ file.content.last_update = <<start_timestamp>>
  /\ start_timestamp > DefaultStart

\* a first_time run queries from the default although a later last_update is
\* stored
C10_WitnessFirstTime ==
  /\ pc = "fetch" /\ first_time
  /\ file.exists /\ file.content.last_update # None
  /\ file.content.last_update[1] > DefaultStart
  /\ start_timestamp = DefaultStart

Counters(db) == [g \in DOMAIN db.games |-> db.games[g].users]

\* C4: the counters of a set of match records are the same whatever the order
\* in which _find_common_games processes them, in one run or split over two
\* runs that share the database.
C4_OrderAndSplitIndependent ==
  aggPc = "done" => Counters(aggTwo) = Counters(aggOne)

\* three records of two games, processed against the table id order and
\* split over two runs
C4_Witness ==
  /\ aggPc = "done"
  /\ aggOrder = <<4, 2, 1>> /\ aggSplit = 1
  /\ aggTwo.games["g1"].users["A"].total = 2
  /\ Counters(aggTwo) = Counters(aggOne)

Tiers == {">800", "700-800", "600-700", "500-600", "<500"}

\* C5: _categorize_by_elo returns one of the five tiers, decided by the
\* thresholds 800, 700, 600, 500 alone.
C5_TierClassification ==
  eloCat # "" =>
    /\ eloCat \in Tiers
    /\ eloCat = ">800" <=> (elo # None /\ elo[1] > 800)
    /\ eloCat = "700-800" <=> (elo # None /\ 700 <= elo[1] /\ elo[1] <= 800)
    /\ eloCat = "600-700" <=> (elo # None /\ 600 <= elo[1] /\ elo[1] < 700)
    /\ eloCat = "500-600" <=> (elo # None /\ 500 <= elo[1] /\ elo[1] < 600)
    /\ eloCat = "<500" <=> (elo = None \/ elo[1] < 500)

\* the boundary input 800 has been put in tier 700-800
C5_Witness == elo = <<800>> /\ eloCat = "700-800"

\* C8 (as claimed): every field value of the posted payload is at most
\* FieldLimit characters long.
C8_FieldValuesWithinLimit ==
  splitPc = "sent" =>
    \A k \in DOMAIN payloadFields :
      ValueLen(payloadFields[k].value) <= FieldLimit

\* the same, for values none of whose entries is longer than FieldLimit
C8_WithinLimitShortEntries ==
  (splitPc = "sent" /\
   \A k \in DOMAIN payloadFields : \A i \in DOMAIN payloadFields[k].value :
     payloadFields[k].value[i].len <= FieldLimit) =>
    \A k \in DOMAIN payloadFields :
      ValueLen(payloadFields[k].value) <= FieldLimit

\* C9 (as claimed): every field value that the tracker posts, in the
\* statistics and in the game list, is at most FieldLimit characters long.
C9_TrackerValuesWithinLimit ==
  /\ \A k \in DOMAIN embedPosted : embedPosted[k] <= FieldLimit
  /\ \A k \in DOMAIN gameListPosted : gameListPosted[k] <= FieldLimit

\* the paging of a pair ends
PairLeft == pc = "fetch" /\ (pc' # "fetch" \/ <<pi', pj'>> # <<pi, pj>>)

\* C11: when the paging of a pair ends and a request has failed (every
\* failing request ends the paging of its pair), the history keeps what it
\* holds, the database and the file stay as they are, and the next pair is
\* queried from page 1, or the aggregation follows the last pair; a run that
\* fetches ends only by its save.
C11_FetchErrorConfined ==
  [][/\ (PairLeft /\ failed') =>
          /\ game_history' = game_history
          /\ database' = database /\ file' = file
          /\ number' = 1
          /\ IF NextPair(pi, pj) = <<>>
             THEN pc' = "aggregate"
             ELSE pc' = "fetch" /\ <<pi', pj'>> = NextPair(pi, pj)
     /\ (pc \in InMemory /\ pc' = "idle") =>
          (pc = "save" /\ file'.exists /\ file'.content.games = database.games)
    ]_vars

\* table 1 was stored, a later request of the run failed, and the run has
\* aggregated table 1 and come to its save
C11_Witness ==
  /\ runs = 1 /\ failed /\ pc = "save"
  /\ InHistory(game_history, 1)
  /\ counted[1] = 1
  /\ TotalOf(database, "g1", "A") = 1

\* a run has returned after a login that failed
LoginFailedReturn == pc = "login" /\ pc' = "idle"

\* C12: a run whose login fails returns with the file neither read nor
\* written, last_update and every counter as they were, no request for
\* matches, no report and no logout.
C12_LoginFailureExits ==
  /\ [][LoginFailedReturn =>
          /\ file' = file
          /\ fileOps' = <<>>
          /\ effects' = <<>>
          /\ game_history' = <<>> /\ stored' = ZeroCount
          /\ counted' = counted
          /\ database' = database
          /\ now' = now]_vars
  /\ []((pc = "idle" /\ fileOps = <<>>) => effects = <<>>)

\* a first run saved; the login of a second run failed and the file still
\* holds the counters and the last_update of the first
C12_Witness ==
  /\ runs = 2 /\ pc = "idle" /\ fileOps = <<>>
  /\ file.exists /\ file.content.last_update # None
  /\ TotalOf(file.content, "g1", "A") = 1

\* the embed of one kind in the returned list, <<>> when there is none
Listed(kind) ==
  IF \E e \in Range(embeds) : e.kind = kind
  THEN (CHOOSE e \in Range(embeds) : e.kind = kind).players ELSE <<>>
Given == Range(players_data)
NumberOf(set) == IF Cardinality(set) < TopN THEN Cardinality(set) ELSE TopN

\* C13: format_message on a non-empty list returns at most two embeds, the
\* risers embed before the fallers one; the risers are at most 10 players of
\* the input, each once, all with a positive value, in non-increasing order,
\* and no positive player left out has a larger value than a listed one; the
\* fallers are at most 10, all negative, in non-decreasing order, and no
\* negative player left out has a smaller value; a player of value 0 is in
\* neither. On an empty list exactly one error embed is returned.
C13_RisersAndFallers ==
  fmtPc = "done" =>
    LET risers == Listed("risers")
        fallers == Listed("fallers")
        pos == {p \in Given : p.prediction_value > 0}
        neg == {p \in Given : p.prediction_value < 0}
    IN  IF players_data = <<>>
        THEN Len(embeds) = 1 /\ embeds[1].kind = "error"
        ELSE /\ Len(embeds) <= 2
             /\ \A k \in DOMAIN embeds :
                  /\ embeds[k].kind \in {"risers", "fallers"}
                  /\ embeds[k].players # <<>>
                  /\ embeds[k].kind = "fallers" =>
                       \A h \in DOMAIN embeds : h > k => embeds[h].kind = "fallers"
             /\ \A k, h \in DOMAIN embeds : k # h => embeds[k].kind # embeds[h].kind
             /\ Range(risers) \subseteq pos /\ Range(fallers) \subseteq neg
             /\ Len(risers) = NumberOf(pos) /\ Len(fallers) = NumberOf(neg)
             /\ Cardinality(Range(risers)) = Len(risers)
             /\ Cardinality(Range(fallers)) = Len(fallers)
             /\ \A k \in 1..(Len(risers) - 1) :
                  risers[k].prediction_value >= risers[k + 1].prediction_value
             /\ \A k \in 1..(Len(fallers) - 1) :
                  fallers[k].prediction_value <= fallers[k + 1].prediction_value
             /\ \A p \in pos \ Range(risers) : \A q \in Range(risers) :
                  p.prediction_value <= q.prediction_value
             /\ \A p \in neg \ Range(fallers) : \A q \in Range(fallers) :
                  p.prediction_value >= q.prediction_value

\* more than 10 risers of different values and fallers next to players of
\* value 0 were given
C13_Witness ==
  /\ fmtPc = "done" /\ Len(embeds) = 2
  /\ Len(Listed("risers")) = TopN
  /\ Cardinality({p \in Given : p.prediction_value > 0}) > TopN
  /\ Listed("risers")[1].prediction_value > Listed("risers")[TopN].prediction_value
  /\ Listed("fallers") # <<>>
  /\ \E p \in Given : p.prediction_value = 0

\* yesterday 18:00 UTC and today 18:00 UTC of a run, and the submissions of
\* the search created between them, in the order of the search
Yesterday6PM == (utcNow - (utcNow % DayLen)) - DayLen + SixPM
Today6PM == (utcNow - (utcNow % DayLen)) + SixPM
Due ==
  SelectSeq([k \in DOMAIN found |-> k],
            LAMBDA k : Yesterday6PM <= found[k] /\ found[k] < Today6PM)
IsPrefix(a, b) == Len(a) <= Len(b) /\ a = SubSeq(b, 1, Len(a))
NewsEnded == newsPc \in {"returned", "raised"}

\* C14 as stated: whenever a run of fpl_news.main has ended, with the webhook
\* set the submissions sent are exactly those of the search created in
\* [yesterday 18:00 UTC, today 18:00 UTC), each once, in the order of the
\* search, and without the webhook nothing is sent.
C14_ForwardedIffInWindow ==
  NewsEnded => sent = (IF webhook THEN Due ELSE <<>>)

\* C14 amended: that holds of a run that returns; of a run ended by an
\* exception the submissions sent are the first ones of those, each once, in
\* the order of the search. The window is 24 hours long and starts yesterday
\* at 18:00 UTC; without the webhook no delivery is attempted.
C14_ForwardedIffInWindowOnReturn ==
  /\ newsPc = "returned" => sent = (IF webhook THEN Due ELSE <<>>)
  /\ IsPrefix(sent, Due) /\ IsPrefix(attempts, Due)
  /\ ~webhook => attempts = <<>>
  /\ newsPc \in {"loop", "returned", "raised"} /\ webhook =>
       /\ start_time = Yesterday6PM /\ end_time = Today6PM
       /\ end_time - start_time = DayLen

\* a run returned having sent two submissions, one created at the very
\* start of the window, and having left out one created at its very end
C14_Witness ==
  /\ newsPc = "returned" /\ webhook /\ Len(sent) = 2
  /\ \E k \in Range(sent) : found[k] = start_time
  /\ \E k \in DOMAIN found : found[k] = end_time /\ k \notin Range(sent)

\* C15: a failed delivery is not swallowed: once send_to_discord has failed
\* for a submission the run has ended by the exception, that submission was
\* tried once and is the last one tried, and no later one was sent.
C15_FailureNotSwallowed ==
  /\ Len(attempts) <= Len(sent) + 1
  /\ Len(attempts) > Len(sent) =>
       /\ newsPc = "raised"
       /\ attempts = Append(sent, idx)
       /\ \A k \in Range(attempts) : k <= idx
       /\ idx \notin Range(sent)
  /\ \A k, h \in DOMAIN attempts : k < h => attempts[k] < attempts[h]

\* a delivery failed after one that succeeded, and a later submission of
\* the window was left unsent
C15_Witness ==
  /\ newsPc = "raised" /\ Len(sent) = 1 /\ Len(attempts) = 2
  /\ idx < Len(found)
  /\ Len(found) \in Range(Due)

Lists == {"winners", "runner_ups", "losers", "lasts"}
\* the lists a name was put in, and how often
TimesIn(list, name) == Cardinality({k \in DOMAIN list : list[k] = name})
ListsOf(name) == {l \in Lists : TimesIn(placed[l], name) > 0}

\* C16: of a classified table every tracked player is in exactly one of
\* winners, runner_ups, losers, lasts, once, and every untracked player in
\* none: in winners with rank 1 (also when 1 is the largest rank), otherwise
\* in lasts with the largest rank, otherwise in runner_ups with rank 2,
\* otherwise in losers; so with 2 as the largest rank the player of rank 2
\* is in lasts.
C16_PlacementPrecedence ==
  placePc = "done" =>
    \A i \in DOMAIN table.ranks :
      LET name == table.player_names[i]
          rank == table.ranks[i]
          largest == Largest(table.ranks)
      IN  IF name \notin Range(UserNames) THEN ListsOf(name) = {}
          ELSE /\ \A l \in ListsOf(name) : TimesIn(placed[l], name) = 1
               /\ rank = 1 => ListsOf(name) = {"winners"}
               /\ rank # 1 /\ rank = largest => ListsOf(name) = {"lasts"}
               /\ rank # 1 /\ rank # largest /\ rank = 2 =>
                    ListsOf(name) = {"runner_ups"}
               /\ rank # 1 /\ rank # largest /\ rank # 2 =>
                    ListsOf(name) = {"losers"}

\* a table of largest rank 2 whose winner is not tracked and whose player of
\* rank 2 is
C16_Witness ==
  /\ placePc = "done" /\ Largest(table.ranks) = 2
  /\ \E i \in DOMAIN table.ranks :
       table.ranks[i] = 1 /\ table.player_names[i] \notin Range(UserNames)
  /\ \E i \in DOMAIN table.ranks :
       /\ table.ranks[i] = 2
       /\ ListsOf(table.player_names[i]) = {"lasts"}

\* the pairs asked for, each where its first request stands, in order
PairOf(k) == <<requests[k][1], requests[k][2]>>
FirstOfPair(k) == k = 1 \/ PairOf(k - 1) # PairOf(k)
Queries == SelectSeq([k \in DOMAIN requests |-> k], FirstOfPair)
LexLess(p, q) == p[1] < q[1] \/ (p[1] = q[1] /\ p[2] < q[2])

Excluded(games) == DOMAIN games \cap ExcludeGameIds

\* C18: no table of an excluded game is ever in the game history, and the
\* database, in memory and in the file, which start without an entry of an
\* excluded game, never get one.
C18_ExcludedNeverRecorded ==
  /\ \A k \in DOMAIN game_history :
       game_history[k].game_id \notin ExcludeGameIds
  /\ \A t \in TableIds :
       Tables[t].game_id \in ExcludeGameIds => stored[t] = 0 /\ counted[t] = 0
  /\ Excluded(database.games) = {}
  /\ Excluded(file.content.games) = {}

\* the pair of players of a finished table of an excluded game was asked
\* for, the first page came with a table that has finished with it and was
\* stored, and the run has saved
C18_Witness ==
  /\ RunSaved /\ 3 \in DOMAIN finish /\ Tables[3].game_id \in ExcludeGameIds
  /\ finish[3] = finish[2] /\ counted[2] = 1 /\ counted[1] = 1
  /\ ~failed
  /\ DOMAIN file.content.games = {"g1"}

\* user h of the game is at least as good as user k: a larger win ratio, or
\* the same ratio and at least as many wins
AsGoodAs(h, k) ==
  LET a == gameUsers[h]
      b == gameUsers[k]
  IN  \/ a.win * b.total > b.win * a.total
      \/ a.win * b.total = b.win * a.total /\ a.win >= b.win
\* user k has the largest ratio and, among those of that ratio, the most
\* wins, and is the first such user
IsBest(k) ==
  /\ \A h \in DOMAIN gameUsers : AsGoodAs(k, h)
  /\ \A h \in 1..(k - 1) : ~AsGoodAs(h, k)
SomeoneWon == \E k \in DOMAIN gameUsers : gameUsers[k].win >= 1

\* C19: after _analyze_game a best player is recorded for the game exactly
\* when some player of it has a win, and is then the first player, in the
\* order of iteration, among those of the most wins among those of the
\* largest win/total ratio, recorded with its wins and total; the game list
\* names that player, and says 'No winners' when none is recorded.
C19_BestPlayer ==
  bestPc \in {"analyzed", "listed"} =>
    /\ IF SomeoneWon
       THEN /\ gameWinner # None
            /\ gameWinner[1] \in DOMAIN gameUsers /\ IsBest(gameWinner[1])
            /\ gameWinner[2] = gameUsers[gameWinner[1]].win
            /\ gameWinner[3] = gameUsers[gameWinner[1]].total
       ELSE gameWinner = None
    /\ bestPc = "listed" =>
         IF SomeoneWon
         THEN /\ gameEntry.kind = "winner" /\ IsBest(gameEntry.name)
              /\ gameEntry.wins = gameUsers[gameEntry.name].win
              /\ gameEntry.total = gameUsers[gameEntry.name].total
         ELSE gameEntry.kind = "No winners"

\* the second of three players of the same ratio is listed, having more
\* wins than the first and as many as the third
C19_Witness ==
  /\ bestPc = "listed" /\ Len(gameUsers) = 3 /\ gameEntry.name = 2
  /\ \A k \in 1..3 : gameUsers[k].win = gameUsers[k].total
  /\ gameUsers[1].win < gameUsers[2].win
  /\ gameUsers[3].win = gameUsers[2].win

\* the entries of the values of some fields, one after the other, without
\* the " \n" put before a part
RECURSIVE EntriesOf(_)
EntriesOf(fields) ==
  IF fields = <<>> THEN <<>>
  ELSE [k \in DOMAIN Head(fields).value |->
          [id |-> Head(fields).value[k].id, len |-> Head(fields).value[k].len]]
       \o EntriesOf(Tail(fields))
\* the place of the field of the entries among the fields given, and the
\* number of fields that have taken its place
LongAt == CHOOSE k \in DOMAIN embedGiven : embedGiven[k].name = "TOP 10"
PartsPosted == Len(payloadFields) - Len(embedGiven) + 1

\* C20: in the payload posted the fields before and after the field of the
\* entries are as they were given, in their order; in the place of that
\* field stand one or more fields whose entries, one after the other, are
\* the entries given, each once and in the order given, and the first of
\* which has the name given.
C20_SplitKeepsEntries ==
  splitPc = "sent" =>
    /\ PartsPosted >= 1
    /\ SubSeq(payloadFields, 1, LongAt - 1) = SubSeq(embedGiven, 1, LongAt - 1)
    /\ SubSeq(payloadFields, LongAt + PartsPosted, Len(payloadFields))
         = SubSeq(embedGiven, LongAt + 1, Len(embedGiven))
    /\ EntriesOf(SubSeq(payloadFields, LongAt, LongAt + PartsPosted - 1))
         = EntriesOf(<<embedGiven[LongAt]>>)
    /\ payloadFields[LongAt].name = embedGiven[LongAt].name
    /\ \A k \in LongAt..(LongAt + PartsPosted - 1) :
         payloadFields[k].value # <<>>

\* three entries went into three fields between a field before and a field
\* after
C20_Witness ==
  /\ splitPc = "sent" /\ Len(embedGiven) = 3 /\ LongAt = 2
  /\ PartsPosted = 3
  /\ Len(embedGiven[2].value) = 3
  /\ payloadFields[3].name = ZeroWidthName

\* the posts of an embed among what the run did
PostsOf(embed) ==
  {k \in DOMAIN effects : effects[k] \in Range(PostOf[embed])}
\* C21: after a login that succeeded the run leaves the fetching for the
\* aggregation only, and that for the save only, with the aggregated
\* counters in the database and the file untouched, and the save writes that
\* database with last_update set to the local time of the save, a second
\* later than the one the run started in, whatever the report did: webhook
\* unset, a post answered with another status than 204, a post that raised.
\* Each embed is posted at most once in a run, the statistics before the
\* game list.
C21_ReportNeverRollsBack ==
  /\ [][/\ pc = "fetch" => pc' \in {"fetch", "aggregate"}
        /\ pc = "aggregate" /\ pc' # pc =>
             /\ pc' = "save" /\ file' = file /\ fileOps' = fileOps
             /\ database' = FindCommonGames(database, game_history)
        /\ pc = "save" /\ pc' # pc =>
             /\ pc' = "idle" /\ fileOps' = <<"read", "write">>
             /\ file'.exists /\ file'.content.games = database.games
             /\ file'.content.last_update = FormatTime(now)
             /\ Sec(now) > runStart
       ]_vars
  /\ [](/\ Cardinality(PostsOf("stats")) <= 1
        /\ Cardinality(PostsOf("list")) <= 1
        /\ \A k \in PostsOf("stats") : \A h \in PostsOf("list") : k < h)

\* a run whose first post raised and whose second got another status than
\* 204 has saved the counters of a table it found
C21_Witness ==
  /\ RunSaved /\ runs = 1
  /\ effects = <<"stats:raises", "list:status", "logout">>
  /\ counted[1] = 1 /\ TotalOf(file.content, "g1", "A") = 1
  /\ file.content.last_update # None

====
